---- MODULE Spec2Model ----
(***************************************************************************)
(* ClaimShield (src/app.py): one Streamlit script, executed top to bottom  *)
(* on every interaction of a browser session.  The state is the browser    *)
(* session's st.session_state dictionary and uploaded-file widget, the     *)
(* hosted "claims" table and the identity provider's accounts.  Every      *)
(* action but NewSession is one complete script run with at most one       *)
(* button pressed; sessions follow one another on the same table.          *)
(***************************************************************************)
EXTENDS Integers, Sequences, FiniteSets, TLC

VARIABLES session_state, uploaded_file, rerun, claims, accounts, last

vars == <<session_state, uploaded_file, rerun, claims, accounts, last>>

----------------------------------------------------------------------------
(* Bounds of the model *)

MaxRows == 2

(* Values the users and the external services can supply *)

ADMIN_EMAIL == "complyra86@gmail.com"
Emails == {ADMIN_EMAIL, "Complyra86@gmail.com"}
Passwords == {"pw", "other"}
Files == {"bill.jpg"}
Texts == {"bill A", "bill B"}
Companies == {"Acme Health", "Beta Care"}
Amounts == {0, 120050}
Cases == {<<"Acme Health", 120050>>, <<"Beta Care", 0>>}

NoFile == "no file"
Unregistered == "unregistered"

----------------------------------------------------------------------------
(* Python dictionaries: a function whose DOMAIN is the set of keys present *)

EmptyDict == [k \in {} |-> TRUE]

SetKey(d, k, v) == [x \in (DOMAIN d) \cup {k} |-> IF x = k THEN v ELSE d[x]]

(* The user object of the identity provider: a unique id and the email *)
UserOf(email) == [id |-> <<"uid", email>>, email |-> email]

(* The first completion choice of the chat request whose user message is text *)
Draft(text) == [draft_of |-> text]

(* The dictionary save_to_supabase inserts *)
InsertData(company, amount, letter) ==
    [insurance_company |-> company, bill_amount |-> amount, appeal_letter |-> letter]

(* Session / authorization state, as the script's two tests decide it *)
IsAdminAnyCase(user) == user.email \in {ADMIN_EMAIL, "Complyra86@gmail.com"}

IsAdmin(user) == user.email = ADMIN_EMAIL

AuthState(ss) ==
    IF "user" \notin DOMAIN ss THEN "ANONYMOUS"
    ELSE IF IsAdmin(ss["user"]) THEN "AUTHENTICATED_ADMIN"
    ELSE "AUTHENTICATED_USER"

----------------------------------------------------------------------------
(* Python values of the OCR response: None, and lists *)

PyNone == [py |-> "None", items |-> <<>>]
PyList(items) == [py |-> "list", items |-> items]

(* dict.get(key): the value, or None when the key is missing *)
Get(d, k) == IF k \in DOMAIN d THEN d[k] ELSE PyNone

(* Python truthiness of None and of a list *)
IsNotNone(v) == v.py = "list"

Truthy(v) == v.py = "list" /\ v.items # <<>>

(* The JSON bodies the OCR endpoint can answer with *)
OcrResponses ==
    {EmptyDict, [ParsedResults |-> PyNone], [ParsedResults |-> PyList(<<>>)]}
    \cup {[ParsedResults |-> PyList(<<[ParsedText |-> t]>>)] : t \in Texts}

(* What the external services (OCR endpoint, LLM endpoint, database,        *)
(* identity provider) do during one script run: whether each call returns   *)
(* or raises, and the OCR endpoint's answer.  A button that is not pressed  *)
(* makes no call, so its outcome is fixed.                                  *)
Only(press, button) == IF press = button THEN BOOLEAN ELSE {TRUE}

Env(press) ==
    [ocrOk : Only(press, "Extract & Analyze"),
     res : IF press = "Extract & Analyze" THEN OcrResponses ELSE {EmptyDict},
     llmOk : Only(press, "Extract & Analyze"),
     insertOk : Only(press, "Save & Lock Case"),
     selectOk : BOOLEAN,
     selectAllOk : Only(press, "View Global Analytics"),
     authOk : IF press \in {"Log In", "Create Account"} THEN BOOLEAN ELSE {TRUE}]

(* The buttons of the page; at most one is pressed in a script run *)
Buttons ==
    {"none", "Extract & Analyze", "Save & Lock Case", "Download PDF", "Log In",
     "Create Account", "View Global Analytics"}

Msg(kind, text, detail) == [kind |-> kind, text |-> text, detail |-> detail]

----------------------------------------------------------------------------
(* The hosted table *)

NullId == <<"null", "">>
NoFilter == [column |-> "none", value |-> "none"]

(* The row the database stores for an inserted dictionary: a column the     *)
(* dictionary does not give keeps its default                               *)
StoredRow(data) ==
    [insurance_company |-> data.insurance_company,
     bill_amount |-> data.bill_amount,
     appeal_letter |-> data.appeal_letter,
     user_id |-> IF "user_id" \in DOMAIN data THEN data.user_id ELSE NullId]

(* table("claims").select(columns) with an optional equality filter: the    *)
(* indexes of the rows returned                                             *)
Select(table, filter) ==
    {i \in 1..Len(table) :
        filter = NoFilter \/ table[i][filter.column] = filter.value}

Query(columns, filter, table) ==
    [columns |-> columns, filter |-> filter, rows |-> Select(table, filter)]

----------------------------------------------------------------------------
(* One script run.  r is the run so far: the session dictionary, the table, *)
(* the provider's accounts, what was called, queried, rendered and shown,   *)
(* and how the run ended ("no": still running).                             *)

NoResponse == [returned |-> FALSE, res |-> EmptyDict]

StartRun ==
    [ss |-> session_state, claims |-> claims, accounts |-> accounts, ops |-> {},
     ocr |-> NoResponse, provider |-> "not asked", queries |-> {}, views |-> {},
     messages |-> {}, fault |-> "none", halt |-> "no"]

Call(r, op) == [r EXCEPT !.ops = @ \cup {op}]
Fault(r, what) == [r EXCEPT !.fault = what, !.halt = "fault"]
Show(r, view) == [r EXCEPT !.views = @ \cup {view}]
Say(r, m) == [r EXCEPT !.messages = @ \cup {m}]

(* save_to_supabase, lines 34-36 *)
save_to_supabase_upsert(r, company, amount, letter, e) ==
    LET row == StoredRow(InsertData(company, amount, letter))
        r1 == Call(r, "insert")
    IN  IF ~e.insertOk THEN Fault(r1, "insert")
        ELSE IF \E i \in 1..Len(r.claims) : r.claims[i] = row THEN r1
        ELSE [r1 EXCEPT !.claims = Append(@, row)]

save_to_supabase(r, company, amount, letter, e) ==
    LET data == InsertData(company, amount, letter)
        r1 == Call(r, "insert")
    IN  IF ~e.insertOk THEN Fault(r1, "insert")
        ELSE [r1 EXCEPT !.claims = Append(@, StoredRow(data))]

(* "Extract & Analyze", lines 50-68 *)
ExtractHandler(r, e) ==
    LET r0 == Call(r, "ocr")
        r1 == [r0 EXCEPT !.ocr = [returned |-> TRUE, res |-> e.res]]
    IN  IF ~e.ocrOk THEN Fault(r0, "ocr")
        ELSE IF Truthy(Get(e.res, "ParsedResults"))
        THEN IF Get(e.res, "ParsedResults").items = <<>>
             THEN Fault(r1, "ParsedResults[0]")
             ELSE
             LET text == e.res["ParsedResults"].items[1].ParsedText
                 r2 == Call([r1 EXCEPT !.ss = SetKey(@, "raw_text", text)], "llm")
             IN  IF ~e.llmOk THEN Fault(r2, "llm")
                 ELSE Say([r2 EXCEPT !.ss = SetKey(@, "appeal_letter", Draft(text))],
                          Msg("success", "Analysis Complete!", ""))
        ELSE r1

(* tab1, column a: lines 46-68 *)
ColA(r, press, e) ==
    IF uploaded_file # NoFile /\ press = "Extract & Analyze"
    THEN ExtractHandler(Show(r, "uploader"), e)
    ELSE Show(r, "uploader")

(* tab1, column b: lines 70-86 *)
ColB(r, press, in, e) ==
    IF r.halt # "no" \/ "appeal_letter" \notin DOMAIN r.ss THEN r
    ELSE LET r1 == Show(Show(r, "letter"), "save_case")
             r2 == IF press = "Save & Lock Case"
                   THEN save_to_supabase(r1, in.company, in.amount,
                                         r1.ss["appeal_letter"], e)
                   ELSE r1
         IN  IF r2.halt # "no" THEN r2
             ELSE Show(Call(r2, "generate_pdf"), "download")

(* tab2, the dashboard: lines 88-95 *)
Dashboard(r, e) ==
    IF r.halt # "no" THEN r
    ELSE LET r1 == Call(Show(r, "leaderboard"), "select")
         IN  IF ~e.selectOk THEN Fault(r1, "select")
             ELSE [r1 EXCEPT !.queries = @ \cup
                       {Query("insurance_company, bill_amount", NoFilter, r.claims)}]

(* The identity provider's answer to a password sign-in: the user, or an    *)
(* exception                                                                *)
SignInAnswer(accts, email, password, e) ==
    IF ~e.authOk THEN "outage"
    ELSE IF accts[email] = Unregistered THEN "unknown user"
    ELSE IF accts[email] # password THEN "wrong password"
    ELSE "ok"

(* ... and to a sign-up *)
SignUpAnswer(accts, email, e) ==
    IF ~e.authOk THEN "outage"
    ELSE IF accts[email] # Unregistered THEN "User already registered"
    ELSE "ok"

(* sign_up, lines 101-106 *)
sign_up(r, email, password, e) ==
    LET answer == SignUpAnswer(r.accounts, email, e)
        r1 == [Call(r, "sign_up") EXCEPT !.provider = answer]
    IN  IF answer = "ok"
        THEN Say([r1 EXCEPT !.accounts[email] = password],
                 Msg("success", "Registration successful! You can now log in.", ""))
        ELSE Say(r1, Msg("error", "Error: ", answer))

(* sign_in, lines 108-114 *)
sign_in_keeps_user(r, email, password, e) ==
    LET answer == SignInAnswer(r.accounts, email, password, e)
        r1 == [Call(r, "sign_in") EXCEPT !.provider = answer,
                                         !.ss = SetKey(@, "user", UserOf(email))]
    IN  IF answer = "ok" THEN [r1 EXCEPT !.halt = "rerun"]
        ELSE Say(r1, Msg("error", "Invalid login credentials.", ""))

sign_in(r, email, password, e) ==
    LET answer == SignInAnswer(r.accounts, email, password, e)
        r1 == [Call(r, "sign_in") EXCEPT !.provider = answer]
    IN  IF answer = "ok"
        THEN [r1 EXCEPT !.ss = SetKey(@, "user", UserOf(email)), !.halt = "rerun"]
        ELSE Say(r1, Msg("error", "Invalid login credentials.", ""))

(* The login gate, lines 117-129 *)
LoginUI(r, press, in, e) ==
    IF r.halt # "no" \/ "user" \in DOMAIN r.ss THEN r
    ELSE LET r1 == Show(r, "login_form")
             r2 == IF press = "Log In" THEN sign_in(r1, in.email, in.password, e)
                   ELSE IF press = "Create Account"
                   THEN sign_up(r1, in.email, in.password, e)
                   ELSE r1
         IN  IF r2.halt # "no" THEN r2 ELSE [r2 EXCEPT !.halt = "stop"]

(* The admin branch, lines 132-137 *)
AdminBranch(r, press, e) ==
    IF r.halt # "no" \/ ~IsAdmin(r.ss["user"]) THEN r
    ELSE LET r1 == Show(r, "admin_mode")
         IN  IF press # "View Global Analytics" THEN r1
             ELSE LET r2 == Call(r1, "select_all")
                  IN  IF ~e.selectAllOk THEN Fault(r2, "select_all")
                      ELSE Show([r2 EXCEPT !.queries = @ \cup
                                     {Query("*", NoFilter, r.claims)}],
                                "global_analytics")

(* Sidebar guide and footer, lines 140-176 *)
SidebarAndFooter(r) ==
    IF r.halt # "no" THEN r ELSE [Show(Show(r, "guide"), "footer") EXCEPT !.halt = "end"]

(* The script, top to bottom *)
Script(press, in, e) ==
    SidebarAndFooter(
      AdminBranch(
        LoginUI(
          Dashboard(
            ColB(ColA(StartRun, press, e), press, in, e),
            e),
          press, in, e),
        press, e))

----------------------------------------------------------------------------
(* What the user types into the forms of the page *)

NoInput == [company |-> "", amount |-> 0, email |-> "", password |-> ""]

SaveInputs == {[NoInput EXCEPT !.company = c[1], !.amount = c[2]] : c \in Cases}

LogInInputs ==
    {[NoInput EXCEPT !.email = m, !.password = p] : m \in Emails, p \in Passwords}

SignUpInputs == {in \in LogInInputs : in.password = "pw"}

TypeOK ==
    /\ DOMAIN session_state \subseteq {"user", "raw_text", "appeal_letter"}
    /\ uploaded_file \in Files \cup {NoFile}
    /\ rerun \in BOOLEAN
    /\ Len(claims) <= MaxRows
    /\ accounts \in [Emails -> Passwords \cup {Unregistered}]

(* No script run has happened in this session yet *)
NoRun ==
    [press |-> "none", in |-> NoInput, auth |-> "ANONYMOUS", ops |-> {},
     ocr |-> NoResponse, provider |-> "not asked", queries |-> {}, views |-> {},
     messages |-> {}, fault |-> "none", halt |-> "init"]

Init ==
    /\ session_state = EmptyDict
    /\ uploaded_file = NoFile
    /\ rerun = FALSE
    /\ claims = <<>>
    /\ accounts = [m \in Emails |-> Unregistered]
    /\ last = NoRun

(* The effect of one script run on the state, and the record of what the    *)
(* run did: the button, the form values, the session's state when the run   *)
(* started, the external calls made, the OCR answer, the queries and their  *)
(* results, what was rendered and said, and how the run ended               *)
Commit(press, in, r) ==
    /\ session_state' = r.ss
    /\ claims' = r.claims
    /\ accounts' = r.accounts
    /\ rerun' = (r.halt = "rerun")
    /\ last' = [press |-> press, in |-> in, auth |-> AuthState(session_state),
                ops |-> r.ops, ocr |-> r.ocr, provider |-> r.provider,
                queries |-> r.queries, views |-> r.views, messages |-> r.messages,
                fault |-> r.fault, halt |-> r.halt]

Run(press, in) ==
    \E r \in {Script(press, in, e) : e \in Env(press)} : Commit(press, in, r)

(* A script run with no button pressed: a page load, or the run st.rerun()  *)
(* forces                                                                   *)
Render ==
    /\ Run("none", NoInput)
    /\ UNCHANGED uploaded_file

(* Choosing a file in the uploader reruns the script *)
Upload ==
    /\ ~rerun
    /\ \E f \in Files : uploaded_file' = f
    /\ Run("none", NoInput)

ExtractAndAnalyze ==
    /\ ~rerun
    /\ uploaded_file # NoFile
    /\ Run("Extract & Analyze", NoInput)
    /\ UNCHANGED uploaded_file

SaveCase ==
    /\ ~rerun
    /\ "appeal_letter" \in DOMAIN session_state
    /\ Len(claims) < MaxRows
    /\ \E in \in SaveInputs : Run("Save & Lock Case", in)
    /\ UNCHANGED uploaded_file

DownloadPdf ==
    /\ ~rerun
    /\ "appeal_letter" \in DOMAIN session_state
    /\ Run("Download PDF", NoInput)
    /\ UNCHANGED uploaded_file

LogIn ==
    /\ ~rerun
    /\ "user" \notin DOMAIN session_state
    /\ \E in \in LogInInputs : Run("Log In", in)
    /\ UNCHANGED uploaded_file

CreateAccount ==
    /\ ~rerun
    /\ "user" \notin DOMAIN session_state
    /\ \E in \in SignUpInputs : Run("Create Account", in)
    /\ UNCHANGED uploaded_file

ViewGlobalAnalytics ==
    /\ ~rerun
    /\ "user" \in DOMAIN session_state
    /\ IsAdmin(session_state["user"])
    /\ Run("View Global Analytics", NoInput)
    /\ UNCHANGED uploaded_file

(* The browser session ends and a new one opens: st.session_state and the   *)
(* widgets start empty, the table and the accounts stay                     *)
NewSession ==
    /\ session_state' = EmptyDict
    /\ uploaded_file' = NoFile
    /\ rerun' = FALSE
    /\ last' = NoRun
    /\ UNCHANGED <<claims, accounts>>

Next ==
    \/ Render
    \/ Upload
    \/ ExtractAndAnalyze
    \/ SaveCase
    \/ DownloadPdf
    \/ LogIn
    \/ CreateAccount
    \/ ViewGlobalAnalytics
    \/ NewSession

Spec == Init /\ [][Next]_vars

----------------------------------------------------------------------------
(* The claims *)

GenericError == Msg("error", "Invalid login credentials.", "")

Authenticated == {"AUTHENTICATED_USER", "AUTHENTICATED_ADMIN"}

(* A press of any button of the page, with any form values *)
ButtonPress ==
    \E press \in Buttons, in \in SaveInputs \cup LogInInputs \cup {NoInput} :
        Run(press, in) /\ UNCHANGED uploaded_file

(* The OCR answer has no parsed result: the key is missing, null or an      *)
(* empty list                                                               *)
NoParsedResults(res) ==
    \/ "ParsedResults" \notin DOMAIN res
    \/ res["ParsedResults"].py = "None"
    \/ res["ParsedResults"].items = <<>>

(* C1: while the session holds no user, a script run shows only the login   *)
(* form and calls nothing but the identity provider: no OCR, drafting,      *)
(* insert, PDF export or select.                                            *)
C1_AnonymousOnlyLogin ==
    (last.halt # "init" /\ last.auth = "ANONYMOUS") =>
        /\ last.views \subseteq {"login_form"}
        /\ last.ops \subseteq {"sign_in", "sign_up"}

(* C2: in a non-admin session every query of the claims table returns only  *)
(* rows whose user_id is the session user's id.                             *)
C2_HistoryOnlyOwnRows ==
    last.auth = "AUTHENTICATED_USER" =>
        \A q \in last.queries : \A i \in q.rows :
            claims[i].user_id = session_state["user"].id

(* C3: a Save inserts a row holding the submitted company and amount, the   *)
(* session's letter and, as user_id, the id of the acting session's user.   *)
C3_SavedRowOwnedBySession ==
    (last.press = "Save & Lock Case" /\ last.fault # "insert") =>
        /\ Len(claims) >= 1
        /\ claims[Len(claims)].insurance_company = last.in.company
        /\ claims[Len(claims)].bill_amount = last.in.amount
        /\ claims[Len(claims)].appeal_letter = session_state["appeal_letter"]
        /\ "user" \in DOMAIN session_state
        /\ claims[Len(claims)].user_id = session_state["user"].id

(* C4: a sign-in the provider rejects or that raises (wrong password,       *)
(* unknown user, outage) leaves the session state as it was, without a      *)
(* user, forces no rerun and shows the one generic error.                   *)
C4_FailedSignIn ==
    [][(last'.press = "Log In"
          /\ last'.provider \in {"wrong password", "unknown user", "outage"}) =>
            /\ session_state' = session_state
            /\ "user" \notin DOMAIN session_state'
            /\ ~rerun'
            /\ last'.messages = {GenericError}]_vars

C4_Witness ==
    /\ last.press = "Log In"
    /\ last.provider = "wrong password"
    /\ last.messages = {GenericError}
    /\ AuthState(session_state) = "ANONYMOUS"

(* C5: a successful sign-in puts the provider's user into the session and   *)
(* forces a rerun, which is the next run of the session; every run that     *)
(* passes the login gate is in admin mode exactly when the user's email is  *)
(* the operator address, letter for letter; and the user of a session never *)
(* changes.                                                                 *)
C5_SignInOutcome ==
    [][/\ (last'.press = "Log In" /\ last'.provider = "ok") =>
            /\ "user" \notin DOMAIN session_state
            /\ "user" \in DOMAIN session_state'
            /\ session_state'["user"] = UserOf(last'.in.email)
            /\ rerun'
       /\ rerun => last'.press = "none"
       /\ last'.halt = "end" =>
            /\ "user" \in DOMAIN session_state'
            /\ "admin_mode" \in last'.views
                 <=> session_state'["user"].email = "complyra86@gmail.com"
            /\ AuthState(session_state') =
                 IF session_state'["user"].email = "complyra86@gmail.com"
                 THEN "AUTHENTICATED_ADMIN" ELSE "AUTHENTICATED_USER"
       /\ ("user" \in DOMAIN session_state /\ "user" \in DOMAIN session_state') =>
            session_state'["user"] = session_state["user"]]_vars

C5_Witness ==
    /\ last.halt = "end"
    /\ last.auth = "AUTHENTICATED_USER"
    /\ session_state["user"].email = "Complyra86@gmail.com"
    /\ "admin_mode" \notin last.views
    /\ accounts[ADMIN_EMAIL] # Unregistered

(* C6: in an authenticated session some button of the page signs the user   *)
(* out: pressing it leaves the session without a user, raw text and letter. *)
C6_SignOutAvailable ==
    (AuthState(session_state) \in Authenticated /\ ~rerun) =>
        ENABLED (ButtonPress /\ session_state' = EmptyDict)

(* C7: a query of the claims table without a row filter, and the global     *)
(* analytics view, happen only in an admin session.                         *)
C7_UnfilteredOnlyAdmin ==
    ((\E q \in last.queries : q.filter = NoFilter) \/ "global_analytics" \in last.views)
        => last.auth = "AUTHENTICATED_ADMIN"

(* C8: when the OCR answer has no parsed result, Extract & Analyze leaves   *)
(* the session state (raw_text, appeal_letter) as it was, calls no LLM,     *)
(* announces no analysis and raises nothing.                                *)
C8_EmptyOcrNoOp ==
    [][(last'.press = "Extract & Analyze" /\ last'.ocr.returned
          /\ NoParsedResults(last'.ocr.res)) =>
            /\ session_state' = session_state
            /\ "llm" \notin last'.ops
            /\ last'.messages = {}
            /\ last'.fault \notin {"ocr", "ParsedResults[0]", "llm"}]_vars

C8_Witness ==
    /\ last.press = "Extract & Analyze"
    /\ last.ocr = [returned |-> TRUE, res |-> [ParsedResults |-> PyList(<<>>)]]
    /\ "appeal_letter" \in DOMAIN session_state
    /\ last.fault = "none"

(* C9, as claimed: every Save submission adds exactly one row to the table  *)
(* and keeps the rows that were there; no other step changes the table.     *)
C9_EverySaveAddsOneRow ==
    [][IF last'.press = "Save & Lock Case"
       THEN /\ Len(claims') = Len(claims) + 1
            /\ SubSeq(claims', 1, Len(claims)) = claims
       ELSE claims' = claims]_vars

(* C9, amended: a Save submission whose insert call returns adds exactly    *)
(* one row, equal rows included, and keeps the rows that were there; a Save *)
(* whose insert call raises, and every other step, leaves the table as it   *)
(* was.                                                                     *)
C9_ReturnedSaveAddsOneRow ==
    [][IF last'.press = "Save & Lock Case" /\ last'.fault # "insert"
       THEN /\ Len(claims') = Len(claims) + 1
            /\ SubSeq(claims', 1, Len(claims)) = claims
       ELSE claims' = claims]_vars

C9_Witness ==
    /\ last.press = "Save & Lock Case"
    /\ last.fault # "insert"
    /\ Len(claims) = 2
    /\ claims[1] = claims[2]

(* C10: a letter in the session is the draft of the session's raw text.     *)
C10_LetterOfCurrentText ==
    "appeal_letter" \in DOMAIN session_state =>
        /\ "raw_text" \in DOMAIN session_state
        /\ session_state["appeal_letter"] = Draft(session_state["raw_text"])

====
